---- MODULE Spec2Model ----
(***************************************************************************)
(* Model of the defect-extraction pipeline of app.py:                      *)
(* detect_defects_rule_based (boilerplate filter, sentence segmentation,   *)
(* keyword classification, severity, location, confidence, near-duplicate  *)
(* suppression) and analyze_defects (distributions, priority subset,       *)
(* recommendations).  Texts are TLA+ strings over printable ASCII, tab and *)
(* newline; every string operation of the source is computed character by  *)
(* character.  Confidence values are integers in hundredths.               *)
(***************************************************************************)
EXTENDS Integers, Sequences, FiniteSets, TLC

VARIABLES text, pc, run, defects, idx, unique_defects, seen_descriptions,
          result, first, sentence, severity, tallies, location,
          procs, locals, alone, scan, server, handlers

\* the state of the analyses that run concurrently
concurrent == <<procs, locals, alone>>

\* the state of the web application and of its request handlers
web == <<server, handlers>>

vars == <<text, pc, run, defects, idx, unique_defects, seen_descriptions,
          result, first, sentence, severity, tallies, location, concurrent, scan, web>>

(***************************************************************************)
(* Characters.  A character is a string of length 1.                       *)
(***************************************************************************)
\* the printable ASCII characters 32..95 and 97..126 (a backquote, 96, cannot be
\* written in a TLA+ string and is not part of the model's alphabet)
PrintableLow == " !\"#$%&'()*+,-./0123456789:;<=>?@ABCDEFGHIJKLMNOPQRSTUVWXYZ[\\]^_"
PrintableHigh == "abcdefghijklmnopqrstuvwxyz{|}~"

Chr(n) == IF n = 10 THEN "\n"
          ELSE IF n = 9 THEN "\t"
          ELSE IF n <= 95 THEN SubSeq(PrintableLow, n - 31, n - 31)
          ELSE SubSeq(PrintableHigh, n - 96, n - 96)

\* ord(c) for the characters of the model's alphabet
Ord == [c \in {Chr(n) : n \in {9, 10} \cup (32..95) \cup (97..126)} |->
          CHOOSE n \in {9, 10} \cup (32..95) \cup (97..126) : Chr(n) = c]

IsSpace(c) == c \in {" ", "\n", "\t"}
IsDigit(c) == Ord[c] >= 48 /\ Ord[c] <= 57
IsUpper(c) == Ord[c] >= 65 /\ Ord[c] <= 90
IsLower(c) == Ord[c] >= 97 /\ Ord[c] <= 122
IsPunct(c) == ~IsSpace(c) /\ ~IsDigit(c) /\ ~IsUpper(c) /\ ~IsLower(c)

At(s, i) == SubSeq(s, i, i)

(***************************************************************************)
(* str methods                                                             *)
(***************************************************************************)
LowerChar(c) == IF IsUpper(c) THEN Chr(Ord[c] + 32) ELSE c
UpperChar(c) == IF IsLower(c) THEN Chr(Ord[c] - 32) ELSE c

\* str.lower(), by halves
RECURSIVE LowerRange(_, _, _)
LowerRange(s, lo, hi) ==
    IF lo > hi THEN ""
    ELSE IF lo = hi THEN LowerChar(At(s, lo))
    ELSE LowerRange(s, lo, (lo + hi) \div 2) \o LowerRange(s, (lo + hi) \div 2 + 1, hi)

Lower(s) == LowerRange(s, 1, Len(s))

\* str.strip()
Strip(s) ==
    LET keep == {i \in 1..Len(s) : ~IsSpace(At(s, i))}
    IN IF keep = {} THEN ""
       ELSE SubSeq(s, CHOOSE i \in keep : \A j \in keep : i <= j,
                      CHOOSE i \in keep : \A j \in keep : i >= j)

\* k in s
In(k, s) == \E i \in 1..(Len(s) - Len(k) + 1) : SubSeq(s, i, i + Len(k) - 1) = k

\* s[:n]
Prefix(s, n) == SubSeq(s, 1, IF Len(s) < n THEN Len(s) ELSE n)

\* str.title(): a cased letter is upper-cased when the previous character is
\* not a cased letter and lower-cased otherwise
TitleChar(s, i) ==
    LET prevCased == i > 1 /\ (IsUpper(At(s, i - 1)) \/ IsLower(At(s, i - 1)))
    IN IF prevCased THEN LowerChar(At(s, i)) ELSE UpperChar(At(s, i))

RECURSIVE TitleRange(_, _, _)
TitleRange(s, lo, hi) ==
    IF lo > hi THEN ""
    ELSE IF lo = hi THEN TitleChar(s, lo)
    ELSE TitleRange(s, lo, (lo + hi) \div 2) \o TitleRange(s, (lo + hi) \div 2 + 1, hi)

Title(s) == TitleRange(s, 1, Len(s))

IsNewline(c) == c = "\n"
IsTerminator(c) == c \in {".", "!", "?"}

\* the separators of the three splits of the source
IsSep(kind, c) ==
    CASE kind = "lines" -> IsNewline(c)
      [] kind = "sentences" -> IsTerminator(c)
      [] kind = "words" -> IsSpace(c)

\* split s at separators; with runs, a maximal run of separators is one
\* separator (the + of the regular expression, str.split() without argument).
\* A piece starts at position 1 and after every separator (after every run)
\* and extends to the next separator or the end of s.
Split(s, kind, runs) ==
    LET seps == {i \in 1..Len(s) : IsSep(kind, At(s, i))}
        starts == {1} \cup {i + 1 : i \in {j \in seps : ~runs \/ (j + 1) \notin seps}}
        start(k) == CHOOSE p \in starts : Cardinality({q \in starts : q < p}) = k - 1
        stop(p) == IF \E j \in seps : j >= p
                   THEN (CHOOSE j \in seps : j >= p /\ \A l \in seps : l >= p => j <= l) - 1
                   ELSE Len(s)
    IN [k \in 1..Cardinality(starts) |-> SubSeq(s, start(k), stop(start(k)))]

NonEmpty(seq) == SelectSeq(seq, LAMBDA x : x # "")

RECURSIVE Join(_, _)
Join(seq, sep) ==
    IF seq = <<>> THEN ""
    ELSE IF Len(seq) = 1 THEN seq[1]
    ELSE seq[1] \o sep \o Join(Tail(seq), sep)

\* text.split('\n')
SplitLines(s) == Split(s, "lines", FALSE)
\* re.split(r'[.!?]+', text)
SplitSentences(s) == Split(s, "sentences", TRUE)
\* str.split(): pieces between runs of whitespace, empty pieces dropped
SplitWords(s) == NonEmpty(Split(s, "words", TRUE))

\* s1 < s2 in code-point order
RECURSIVE StrLess(_, _)
StrLess(s1, s2) ==
    IF s2 = "" THEN FALSE
    ELSE IF s1 = "" THEN TRUE
    ELSE IF Head(s1) = Head(s2) THEN StrLess(Tail(s1), Tail(s2))
    ELSE Ord[Head(s1)] < Ord[Head(s2)]

\* sorted(words)
RECURSIVE Sorted(_)
Sorted(seq) ==
    IF seq = <<>> THEN <<>>
    ELSE LET i == CHOOSE j \in 1..Len(seq) :
                      \A k \in 1..Len(seq) : ~StrLess(seq[k], seq[j])
         IN <<seq[i]>> \o Sorted(SubSeq(seq, 1, i - 1) \o SubSeq(seq, i + 1, Len(seq)))

(***************************************************************************)
(* Keyword tables.  A Python dict iterates in insertion order, so each      *)
(* table is a record together with the sequence of its keys.               *)
(***************************************************************************)
CATEGORY_ORDER == <<"structural", "moisture", "electrical", "plumbing", "roofing",
                    "hvac", "insulation", "pest", "safety", "cosmetic">>

DEFECT_CATEGORIES ==
    [structural |-> <<"crack", "fracture", "settlement", "foundation", "beam", "column",
                      "wall damage", "structural damage", "subsidence",
                      "structural failure", "load bearing", "foundation crack">>,
     moisture   |-> <<"damp", "moisture", "leak", "water damage", "mold", "mould",
                      "condensation", "wet rot", "dry rot", "water ingress", "humidity",
                      "moisture content">>,
     electrical |-> <<"wiring", "electrical", "socket", "switch", "circuit breaker", "fuse",
                      "power", "electrical fault", "electrical hazard", "short circuit",
                      "electrical panel">>,
     plumbing   |-> <<"pipe", "plumbing", "drain", "toilet", "sink", "water pressure",
                      "blockage", "tap", "water supply", "drainage", "plumbing leak">>,
     roofing    |-> <<"roof", "tile", "gutter", "chimney", "flashing", "roof leak",
                      "roof damage", "slate", "roof membrane", "downspout",
                      "roof structure">>,
     hvac       |-> <<"heating", "ventilation", "air conditioning", "hvac", "boiler",
                      "radiator", "vent", "ahu", "air handler", "hvac system",
                      "climate control">>,
     insulation |-> <<"insulation", "thermal", "cold spot", "draft", "energy efficiency",
                      "heat loss", "thermal bridge", "insulation gap",
                      "thermal performance">>,
     pest       |-> <<"pest", "infestation", "termite", "rodent", "insect", "woodworm",
                      "beetle", "pest control", "pest damage", "infestation evidence">>,
     safety     |-> <<"safety hazard", "dangerous", "asbestos", "lead paint", "fire safety",
                      "emergency exit", "safety risk", "hazardous material",
                      "safety concern", "urgent risk">>,
     cosmetic   |-> <<"paint", "decoration", "cosmetic", "appearance", "finish", "surface",
                      "aesthetic", "painting", "decorative", "visual">>]

SEVERITY_ORDER == <<"critical", "high", "medium", "low">>

SEVERITY_KEYWORDS ==
    [critical |-> <<"urgent risk", "immediate danger", "critical", "dangerous", "severe",
                    "major structural", "safety risk", "structural failure",
                    "immediate attention", "emergency">>,
     high     |-> <<"significant", "major", "serious", "extensive", "widespread",
                    "important", "substantial", "considerable", "notable">>,
     medium   |-> <<"moderate", "noticeable", "minor structural", "visible",
                    "needs attention", "attention required", "should be addressed">>,
     low      |-> <<"minor", "cosmetic", "superficial", "small", "slight", "minimal",
                    "aesthetic", "non-critical">>]

critical_indicators == <<"urgent risk", "immediate danger", "safety hazard",
                         "structural failure">>

action_words == <<"damaged", "broken", "cracked", "leaking", "failing", "deteriorated">>

stopwords == <<"the", "a", "an", "and", "or", "but", "in", "on", "at", "to", "for", "of",
               "with", "by", "is", "are", "was", "were">>

Range(seq) == {seq[i] : i \in 1..Len(seq)}

\* any(k in s for k in keywords)
AnyIn(keywords, s) == \E i \in 1..Len(keywords) : In(keywords[i], s)

\* sum(1 for k in keywords if k in s)
CountIn(keywords, s) == Cardinality({i \in 1..Len(keywords) : In(keywords[i], s)})

Min(a, b) == IF a < b THEN a ELSE b

(***************************************************************************)
(* filter_summary_sections.  Six of the ten skip patterns begin with an    *)
(* emoji and match no line over the model's ASCII alphabet; the four       *)
(* others are literal phrases searched in the lowercased, trimmed line.    *)
(***************************************************************************)
skip_patterns == <<"would you like me to", "ask chatgpt", "this result is",
                   "with slight refinements">>

MIN_LINE_LEN == 10

KeepLine(line) ==
    LET line_lower == Strip(Lower(line))
    IN ~AnyIn(skip_patterns, line_lower) /\ ~(Len(line_lower) < MIN_LINE_LEN)

filter_summary_sections(t) == Join(SelectSeq(SplitLines(t), KeepLine), "\n")

(***************************************************************************)
(* determine_severity                                                      *)
(***************************************************************************)
CRITICAL_BONUS == 2

\* variant: the bonus added for every indicator phrase the sentence contains
severity_scores_bonus_each(s) ==
    [sev \in Range(SEVERITY_ORDER) |->
        CountIn(SEVERITY_KEYWORDS[sev], s)
        + (IF sev = "critical" THEN CRITICAL_BONUS * CountIn(critical_indicators, s) ELSE 0)]

severity_scores(s) ==
    [sev \in Range(SEVERITY_ORDER) |->
        CountIn(SEVERITY_KEYWORDS[sev], s)
        + (IF sev = "critical" /\ AnyIn(critical_indicators, s) THEN CRITICAL_BONUS ELSE 0)]

\* max(severity_scores.values())
MaxScore(scores) == CHOOSE m \in {scores[v] : v \in DOMAIN scores} :
                        \A v \in DOMAIN scores : scores[v] <= m

\* variant: the last severity of the dict whose score is the maximum
LastWithScore(scores, max_score) ==
    LET winners == {i \in 1..Len(SEVERITY_ORDER) : scores[SEVERITY_ORDER[i]] = max_score}
    IN SEVERITY_ORDER[CHOOSE i \in winners : \A j \in winners : i >= j]

\* the first severity, in the order of the dict, whose score is the maximum
FirstWithScore(scores, max_score) ==
    LET winners == {i \in 1..Len(SEVERITY_ORDER) : scores[SEVERITY_ORDER[i]] = max_score}
    IN SEVERITY_ORDER[CHOOSE i \in winners : \A j \in winners : i <= j]

\* variant: without the default for a sentence with no signal
determine_severity_no_default(sent) ==
    LET scores == severity_scores(Lower(sent))
    IN FirstWithScore(scores, MaxScore(scores))

determine_severity(sent) ==
    LET scores == severity_scores(Lower(sent))
        max_score == MaxScore(scores)
    IN IF max_score = 0 THEN "medium" ELSE FirstWithScore(scores, max_score)

(***************************************************************************)
(* Regular expressions of the source, matched as re.search matches them:   *)
(* leftmost start, alternatives in order, greedy repetition with           *)
(* backtracking.  An atom is a literal, \d+, [a-z]?, \s+, \s* or a choice   *)
(* of literals; a branch is a sequence of atoms; a group is a sequence of  *)
(* branches (its alternatives).  A pattern is its first group g1 followed  *)
(* by the branch rest.  Positions are 1-based; an end is the position      *)
(* after the match.                                                        *)
(***************************************************************************)
Lit(str) == [t |-> "lit", s |-> str, ss |-> <<>>]
Digits == [t |-> "digits", s |-> "", ss |-> <<>>]
OptLower == [t |-> "optlower", s |-> "", ss |-> <<>>]
Spaces == [t |-> "spaces", s |-> "", ss |-> <<>>]
OptSpaces == [t |-> "optspaces", s |-> "", ss |-> <<>>]
OneOf(strs) == [t |-> "oneof", s |-> "", ss |-> strs]

StartsAt(s, i, str) == i + Len(str) - 1 <= Len(s) /\ SubSeq(s, i, i + Len(str) - 1) = str

\* length of the maximal run of digits (kind "d") or whitespace (kind "s") at i
RECURSIVE RunLen(_, _, _)
RunLen(s, i, kind) ==
    IF i > Len(s) THEN 0
    ELSE IF (kind = "d" /\ IsDigit(At(s, i))) \/ (kind = "s" /\ IsSpace(At(s, i)))
         THEN 1 + RunLen(s, i + 1, kind)
         ELSE 0

\* <<i + hi, ..., i + lo>>: the ends of a greedy repetition, longest first
Descending(i, hi, lo) == [k \in 1..(hi - lo + 1) |-> i + hi - k + 1]

RECURSIVE Flatten(_)
Flatten(seqs) == IF seqs = <<>> THEN <<>> ELSE Head(seqs) \o Flatten(Tail(seqs))

AtomEnds(a, s, i) ==
    CASE a.t = "lit" -> IF StartsAt(s, i, a.s) THEN <<i + Len(a.s)>> ELSE <<>>
      [] a.t = "digits" -> Descending(i, RunLen(s, i, "d"), 1)
      [] a.t = "optlower" -> IF i <= Len(s) /\ IsLower(At(s, i)) THEN <<i + 1, i>> ELSE <<i>>
      [] a.t = "spaces" -> Descending(i, RunLen(s, i, "s"), 1)
      [] a.t = "optspaces" -> Descending(i, RunLen(s, i, "s"), 0)
      [] a.t = "oneof" ->
            Flatten([k \in 1..Len(a.ss) |->
                        IF StartsAt(s, i, a.ss[k]) THEN <<i + Len(a.ss[k])>> ELSE <<>>])

\* the ends of the matches of atoms k.. of a branch at i, in the order tried
RECURSIVE BranchEnds(_, _, _, _)
BranchEnds(branch, k, s, i) ==
    IF k > Len(branch) THEN <<i>>
    ELSE LET ends == AtomEnds(branch[k], s, i)
         IN Flatten([j \in 1..Len(ends) |-> BranchEnds(branch, k + 1, s, ends[j])])

GroupEnds(group, s, i) ==
    Flatten([k \in 1..Len(group) |-> BranchEnds(group[k], 1, s, i)])

\* the ends of group 1 at i after which the rest of the pattern matches
MatchG1Ends(pat, s, i) ==
    SelectSeq(GroupEnds(pat.g1, s, i), LAMBDA e : BranchEnds(pat.rest, 1, s, e) # <<>>)

Matches(pat, s) == \E i \in 1..(Len(s) + 1) : MatchG1Ends(pat, s, i) # <<>>

\* re.search(pat, s).group(1), for a pattern that matches s
Group1(pat, s) ==
    LET starts == {i \in 1..(Len(s) + 1) : MatchG1Ends(pat, s, i) # <<>>}
        i0 == CHOOSE i \in starts : \A j \in starts : i <= j
    IN SubSeq(s, i0, MatchG1Ends(pat, s, i0)[1] - 1)

Words(strs) == [k \in 1..Len(strs) |-> <<Lit(strs[k])>>]

(***************************************************************************)
(* extract_location_enhanced                                               *)
(***************************************************************************)
location_patterns == <<
    [g1 |-> << <<Lit("basement room "), Digits>>, <<Lit("room "), Digits, OptLower>>,
               <<Lit("bedroom "), Digits>>, <<Lit("bathroom "), Digits>> >>,
     rest |-> <<>>],
    [g1 |-> << <<Lit("corridor "), Digits, OptLower>>, <<Lit("hallway "), Digits, OptLower>>,
               <<Lit("office "), Digits, OptLower>> >>,
     rest |-> <<>>],
    [g1 |-> << <<Lit("unit "), Digits, OptLower>>, <<Lit("apartment "), Digits, OptLower>>,
               <<Lit("suite "), Digits, OptLower>> >>,
     rest |-> <<>>],
    [g1 |-> << <<Lit("rooftop ahu "), Digits>>, <<Lit("ahu "), Digits>>,
               <<Lit("boiler room")>>, <<Lit("mechanical room")>> >>,
     rest |-> <<>>],
    [g1 |-> Words(<<"electrical room", "server room", "storage room">>), rest |-> <<>>],
    [g1 |-> Words(<<"kitchen", "bathroom", "bedroom", "living room", "basement", "attic",
                    "garage">>),
     rest |-> <<>>],
    [g1 |-> Words(<<"lobby", "entrance", "stairwell", "elevator", "parking">>),
     rest |-> <<>>],
    [g1 |-> Words(<<"ground floor", "first floor", "second floor", "third floor">>)
            \o << <<Digits, OneOf(<<"st", "nd", "rd", "th">>), Lit(" floor")>> >>,
     rest |-> <<>>],
    [g1 |-> Words(<<"north", "south", "east", "west">>),
     rest |-> <<Spaces, OneOf(<<"wall", "side", "elevation", "facade">>)>>],
    [g1 |-> Words(<<"front", "back", "rear">>),
     rest |-> <<Spaces, OneOf(<<"wall", "elevation", "entrance">>)>>],
    [g1 |-> Words(<<"exterior", "interior">>),
     rest |-> <<Spaces, OneOf(<<"wall", "surface">>)>>],
    [g1 |-> Words(<<"roof", "ceiling", "floor", "wall", "foundation", "basement">>),
     rest |-> <<>>] >>

\* variant: the patterns searched together as the alternatives of one
\* expression, so that the match that starts first in the sentence wins
extract_location_leftmost(sent) ==
    LET sentence_lower == Lower(sent)
        StartOf(k) == LET starts == {i \in 1..(Len(sentence_lower) + 1) :
                                       MatchG1Ends(location_patterns[k], sentence_lower, i) # <<>>}
                      IN CHOOSE i \in starts : \A j \in starts : i <= j
        hits == {k \in 1..Len(location_patterns) : Matches(location_patterns[k], sentence_lower)}
    IN IF hits = {} THEN "Unspecified"
       ELSE Title(Group1(location_patterns[
                    CHOOSE k \in hits : \A j \in hits :
                        StartOf(k) < StartOf(j) \/ (StartOf(k) = StartOf(j) /\ k <= j)],
                    sentence_lower))

\* variant: the patterns tried from the most generic one to the most specific
extract_location_generic_first(sent) ==
    LET sentence_lower == Lower(sent)
        hits == {k \in 1..Len(location_patterns) : Matches(location_patterns[k], sentence_lower)}
    IN IF hits = {} THEN "Unspecified"
       ELSE Title(Group1(location_patterns[CHOOSE k \in hits : \A j \in hits : k >= j],
                         sentence_lower))

\* variant: the default spelled as app_simple.py spells it
extract_location_lowercase_default(sent) ==
    LET sentence_lower == Lower(sent)
        hits == {k \in 1..Len(location_patterns) : Matches(location_patterns[k], sentence_lower)}
    IN IF hits = {} THEN "unspecified"
       ELSE Title(Group1(location_patterns[CHOOSE k \in hits : \A j \in hits : k <= j],
                         sentence_lower))

extract_location_enhanced(sent) ==
    LET sentence_lower == Lower(sent)
        hits == {k \in 1..Len(location_patterns) : Matches(location_patterns[k], sentence_lower)}
    IN IF hits = {} THEN "Unspecified"
       ELSE Title(Group1(location_patterns[CHOOSE k \in hits : \A j \in hits : k <= j],
                         sentence_lower))

(***************************************************************************)
(* calculate_confidence_enhanced, in hundredths.  The source adds floats;  *)
(* each of its sums is the double nearest to the hundredths value or the   *)
(* next double above it, so the comparisons with 0.4 and 0.95 agree with   *)
(* the integer ones.  (The sum 0.4 + 0.08 + 0.12 + 0.1 is the double above *)
(* 0.7: there alone a float comparison with 0.7 differs from 70 > 70.)     *)
(***************************************************************************)
\* \d+\s*(mm|cm|m|inch|inches|feet|ft|%|degrees?|°): the last alternative, the
\* degree sign, is outside the model's alphabet
measurement_pattern ==
    [g1 |-> << <<Digits, OptSpaces,
                 OneOf(<<"mm", "cm", "m", "inch", "inches", "feet", "ft", "%", "degrees",
                         "degree">>)>> >>,
     rest |-> <<>>]

BASE_CONFIDENCE == 40
KEYWORD_BONUS == 8
KEYWORD_BONUS_CAP == 25
SEVERITY_BONUS == 12
MEASUREMENT_BONUS == 10
ACTION_BONUS == 15
LOCATION_BONUS == 8
CONFIDENCE_CAP == 95

\* variant: the sum returned without the cap
Uncapped(c) == c

\* min(confidence, 0.95)
CapConfidence(c) == Min(c, CONFIDENCE_CAP)

\* variant: the factors added up without the base confidence
calculate_confidence_no_base(s, keyword, category) ==
    LET keyword_count == CountIn(DEFECT_CATEGORIES[category], s)
    IN CapConfidence(
          Min(keyword_count * KEYWORD_BONUS, KEYWORD_BONUS_CAP)
          + (IF \E v \in Range(SEVERITY_ORDER) : AnyIn(SEVERITY_KEYWORDS[v], s)
             THEN SEVERITY_BONUS ELSE 0)
          + (IF Matches(measurement_pattern, s) THEN MEASUREMENT_BONUS ELSE 0)
          + (IF AnyIn(action_words, s) THEN ACTION_BONUS ELSE 0)
          + (IF ~In("unspecified", Lower(extract_location_enhanced(s)))
             THEN LOCATION_BONUS ELSE 0))

calculate_confidence_enhanced(s, keyword, category) ==
    LET keyword_count == CountIn(DEFECT_CATEGORIES[category], s)
    IN CapConfidence(
          BASE_CONFIDENCE
          + Min(keyword_count * KEYWORD_BONUS, KEYWORD_BONUS_CAP)
          + (IF \E v \in Range(SEVERITY_ORDER) : AnyIn(SEVERITY_KEYWORDS[v], s)
             THEN SEVERITY_BONUS ELSE 0)
          + (IF Matches(measurement_pattern, s) THEN MEASUREMENT_BONUS ELSE 0)
          + (IF AnyIn(action_words, s) THEN ACTION_BONUS ELSE 0)
          + (IF ~In("unspecified", Lower(extract_location_enhanced(s)))
             THEN LOCATION_BONUS ELSE 0))

(***************************************************************************)
(* normalize_description, calculate_similarity                            *)
(***************************************************************************)
\* desc.translate(str.maketrans('', '', string.punctuation)), by halves
RECURSIVE RemovePunctuationRange(_, _, _)
RemovePunctuationRange(s, lo, hi) ==
    IF lo > hi THEN ""
    ELSE IF lo = hi THEN (IF IsPunct(At(s, lo)) THEN "" ELSE At(s, lo))
    ELSE RemovePunctuationRange(s, lo, (lo + hi) \div 2)
         \o RemovePunctuationRange(s, (lo + hi) \div 2 + 1, hi)

RemovePunctuation(s) == RemovePunctuationRange(s, 1, Len(s))

normalize_description(description) ==
    LET desc == RemovePunctuation(Lower(description))
        words == SelectSeq(SplitWords(desc), LAMBDA w : w \notin Range(stopwords))
    IN Join(Sorted(words), " ")

\* len(intersection) / len(union) as the fraction <<numerator, denominator>>;
\* two empty word sets give 1.0
calculate_similarity(str1, str2) ==
    LET words1 == Range(SplitWords(str1))
        words2 == Range(SplitWords(str2))
    IN IF words1 = {} /\ words2 = {} THEN <<1, 1>>
       ELSE <<Cardinality(words1 \cap words2), Cardinality(words1 \cup words2)>>

\* the threshold 0.8 = 4/5 of deduplicate_defects.  The float quotient i/u of
\* two small integers exceeds the float 0.8 exactly when 5 * i > 4 * u.
THRESHOLD_NUM == 4
THRESHOLD_DEN == 5

\* variant: only equal word sets count as duplicates
OnlyEqual(sim) == sim[1] = sim[2]

\* variant: only descriptions that are close but differ count as duplicates
NearButNotEqual(sim) == sim[1] # sim[2] /\ THRESHOLD_DEN * sim[1] > THRESHOLD_NUM * sim[2]

\* variant: the threshold included
AtLeastThreshold(sim) == THRESHOLD_DEN * sim[1] >= THRESHOLD_NUM * sim[2]

\* calculate_similarity(desc_key, seen_desc) > 0.8
TooSimilar(sim) == THRESHOLD_DEN * sim[1] > THRESHOLD_NUM * sim[2]

\* the inner loop of deduplicate_defects over the set seen_descriptions, in the
\* order in which the set happens to iterate: is_duplicate.
\* variant: is_duplicate assigned in every iteration, without break
IsDuplicateLastWins(order, desc_key) ==
    order # <<>> /\ TooSimilar(calculate_similarity(desc_key, order[Len(order)]))

\* variant: the loop left after its first iteration
IsDuplicateFirstOnly(order, desc_key) ==
    order # <<>> /\ TooSimilar(calculate_similarity(desc_key, order[1]))

RECURSIVE IsDuplicate(_, _)
IsDuplicate(order, desc_key) ==
    IF order = <<>> THEN FALSE
    ELSE IF TooSimilar(calculate_similarity(desc_key, Head(order))) THEN TRUE
    ELSE IsDuplicate(Tail(order), desc_key)

\* the orders in which a set can iterate
Orders(S) == {f \in [1..Cardinality(S) -> S] : \A i, j \in DOMAIN f : f[i] = f[j] => i = j}

\* variant: the accepted defect put in front of the list
Prepended(unique, defect) == <<defect>> \o unique

\* unique_defects.append(defect)
Accepted(unique, defect) == Append(unique, defect)

\* the loop of deduplicate_defects from defect i on, as a function of the list:
\* seen holds the accepted keys in the order they were added
RECURSIVE DedupLoop(_, _, _, _)
DedupLoop(defs, i, unique, seen) ==
    IF i > Len(defs) THEN unique
    ELSE LET desc_key == normalize_description(defs[i].description)
         IN IF IsDuplicate(seen, desc_key)
            THEN DedupLoop(defs, i + 1, unique, seen)
            ELSE DedupLoop(defs, i + 1, Accepted(unique, defs[i]), Append(seen, desc_key))

deduplicate_defects(defs) == IF defs = <<>> THEN defs ELSE DedupLoop(defs, 1, <<>>, <<>>)

(***************************************************************************)
(* The sentence loop of detect_defects_rule_based                          *)
(***************************************************************************)
MIN_SENTENCE_LEN == 15
SENTENCE_KEY_LEN == 50
CONFIDENCE_FLOOR == 40

\* variant: the keyword loop without its break, one candidate for every
\* keyword of the category contained in the sentence
CategoryCandidateNoBreak(sent, sentence_lower, category, k) ==
    LET keywords == DEFECT_CATEGORIES[category]
    IN Flatten([j \in 1..Len(keywords) |->
         IF j >= k /\ In(keywords[j], sentence_lower)
         THEN << [category |-> category,
                  severity |-> determine_severity(sentence_lower),
                  description |-> Strip(sent),
                  location |-> extract_location_enhanced(sent),
                  confidence |-> calculate_confidence_enhanced(sentence_lower, keywords[j],
                                                               category),
                  keyword_matched |-> keywords[j]] >>
         ELSE <<>>])

\* the keyword loop of one category from keyword k on: the first keyword
\* contained in the sentence gives the candidate; a candidate that passes the
\* confidence floor becomes the defect of the category (break), one under the
\* floor moves on to the next keyword (continue)
RECURSIVE CategoryCandidate(_, _, _, _)
CategoryCandidate(sent, sentence_lower, category, k) ==
    LET keywords == DEFECT_CATEGORIES[category]
        contained == {j \in k..Len(keywords) : In(keywords[j], sentence_lower)}
        k0 == CHOOSE j \in contained : \A l \in contained : j <= l
        confidence == calculate_confidence_enhanced(sentence_lower, keywords[k0], category)
    IN IF contained = {} THEN <<>>
       ELSE IF confidence < CONFIDENCE_FLOOR
            THEN CategoryCandidate(sent, sentence_lower, category, k0 + 1)
            ELSE << [category |-> category,
                     severity |-> determine_severity(sentence_lower),
                     description |-> Strip(sent),
                     location |-> extract_location_enhanced(sent),
                     confidence |-> confidence,
                     keyword_matched |-> keywords[k0]] >>

\* variant: a sentence that matches no category reported as a defect of a
\* default category
SentenceCandidatesOrDefault(sent) ==
    LET sentence_lower == Lower(sent)
        found == Flatten([c \in 1..Len(CATEGORY_ORDER) |->
                            CategoryCandidate(sent, sentence_lower, CATEGORY_ORDER[c], 1)])
    IN IF found # <<>> THEN found
       ELSE << [category |-> "cosmetic",
                severity |-> determine_severity(sentence_lower),
                description |-> Strip(sent),
                location |-> extract_location_enhanced(sent),
                confidence |-> CONFIDENCE_FLOOR,
                keyword_matched |-> ""] >>

\* the category loop for one sentence
SentenceCandidates(sent) ==
    LET sentence_lower == Lower(sent)
    IN Flatten([c \in 1..Len(CATEGORY_ORDER) |->
                  CategoryCandidate(sent, sentence_lower, CATEGORY_ORDER[c], 1)])

\* variant: the key taken from the sentence as written
sentence_key_cased(sent) == Prefix(sent, SENTENCE_KEY_LEN)

\* sentence.lower()[:50]
SentenceKey(sent) == Prefix(Lower(sent), SENTENCE_KEY_LEN)

\* the loop over the sentences from position i on, with the keys seen so far
RECURSIVE SentenceLoop(_, _, _)
SentenceLoop(sentences, i, processed_sentences) ==
    IF i > Len(sentences) THEN <<>>
    ELSE LET sent == Strip(sentences[i])
             sentence_key == SentenceKey(sent)
         IN IF Len(sent) < MIN_SENTENCE_LEN \/ sentence_key \in processed_sentences
            THEN SentenceLoop(sentences, i + 1, processed_sentences)
            ELSE SentenceCandidates(sent)
                 \o SentenceLoop(sentences, i + 1, processed_sentences \cup {sentence_key})

\* variant: the text split into sentences first and the filter applied to
\* the sentences
SegmentedThenFiltered(t) == SelectSeq(SplitSentences(t), KeepLine)

\* the sentences of a text: filter_summary_sections, then re.split
Segmented(t) == SplitSentences(filter_summary_sections(t))

\* the list defects before deduplication
Candidates(t) == SentenceLoop(Segmented(t), 1, {})

detect_defects_rule_based(t) == deduplicate_defects(Candidates(t))

(***************************************************************************)
(* generate_recommendations and analyze_defects.  The recommendation       *)
(* strings are the source's without their leading emoji.                   *)
(***************************************************************************)
\* the distribution a tally loop builds: the keys present and their counts
Tally(seq) == [key \in Range(seq) |-> Cardinality({i \in 1..Len(seq) : seq[i] = key})]

\* dist.get(key, 0)
Get(dist, key) == IF key \in DOMAIN dist THEN dist[key] ELSE 0

RECURSIVE SumOver(_, _)
SumOver(dist, keys) ==
    IF keys = {} THEN 0
    ELSE LET key == CHOOSE x \in keys : TRUE
         IN dist[key] + SumOver(dist, keys \ {key})

\* sum(dist.values())
SumValues(dist) == SumOver(dist, DOMAIN dist)

\* the recommendations a sequence of rules <<condition, line>> appends
Lines(rules) == Flatten([k \in 1..Len(rules) |-> IF rules[k][1] THEN <<rules[k][2]>> ELSE <<>>])

\* def generate_recommendations(category_dist, severity_dist), line 636
generate_recommendations_dists(category_dist, severity_dist) ==
    Lines(<< <<severity_dist["critical"] > 0,
               "URGENT: Address critical defects immediately for safety">>,
             <<severity_dist["high"] > 0,
               "HIGH: Schedule professional inspection for major defects">>,
             <<Get(category_dist, "structural") > 0,
               "Structural: Consult structural engineer for assessment">>,
             <<Get(category_dist, "moisture") > 0,
               "Moisture: Investigate sources and improve ventilation">>,
             <<Get(category_dist, "electrical") > 0,
               "Electrical: Have qualified electrician inspect wiring">>,
             <<Get(category_dist, "safety") > 0,
               "Safety: Address safety hazards as priority">>,
             <<TRUE, "Document all repairs and maintain regular inspection schedule">>,
             <<TRUE, "Budget for medium/low priority items in maintenance plan">> >>)

MANY_DEFECTS == 5

\* def generate_recommendations(defects), line 1162
generate_recommendations_defects(defs) ==
    LET categories == Tally([i \in 1..Len(defs) |-> defs[i].category])
    IN Lines(<< <<Get(categories, "structural") > 0,
                  "Schedule structural engineer inspection for foundation and load-bearing elements">>,
                <<Get(categories, "electrical") > 0,
                  "Arrange certified electrician evaluation for electrical safety compliance">>,
                <<Get(categories, "plumbing") > 0,
                  "Contact licensed plumber for water system and drainage assessment">>,
                <<Get(categories, "hvac") > 0,
                  "Schedule HVAC technician service for heating and cooling system maintenance">>,
                <<Get(categories, "safety") > 0,
                  "Address safety hazards immediately to prevent accidents and ensure compliance">>,
                <<Get(categories, "cosmetic") > 0,
                  "Plan cosmetic repairs to maintain property value and appearance">>,
                <<Len(defs) > MANY_DEFECTS,
                  "Consider comprehensive building inspection due to multiple defects identified">> >>)

\* The module defines generate_recommendations twice.  Each def statement
\* binds the module-level name when it executes, so after the module is loaded
\* the name refers to the definition executed last; a call looks the name up
\* when it runs.
generate_recommendations_defs ==
    <<[params |-> <<"category_dist", "severity_dist">>, body |-> "dists"],
      [params |-> <<"defects">>, body |-> "defects"]>>

\* the definition the global name generate_recommendations refers to at call time
GlobalBinding(defs) == defs[Len(defs)]

\* what analyze_defects returns, or the exception it raises
Returned(total, category_dist, severity_dist, priority, recommendations) ==
    [status |-> "returned", total_defects |-> total,
     category_distribution |-> category_dist, severity_distribution |-> severity_dist,
     priority_defects |-> priority, recommendations |-> recommendations]

Raised(exception) ==
    [status |-> exception, total_defects |-> 0, category_distribution |-> <<>>,
     severity_distribution |-> <<>>, priority_defects |-> <<>>, recommendations |-> <<>>]

PRIORITY_CONFIDENCE == 70
PRIORITY_LIMIT == 5

IsPriority(defect) ==
    defect.severity \in {"high", "critical"} /\ defect.confidence > PRIORITY_CONFIDENCE

analyze_defects(defs) ==
    IF defs = <<>>
    THEN Returned(0, <<>>, <<>>, <<>>, <<>>)
    ELSE LET category_dist == Tally([i \in 1..Len(defs) |-> defs[i].category])
             severity_dist == [sev \in Range(SEVERITY_ORDER) |->
                                 Cardinality({i \in 1..Len(defs) : defs[i].severity = sev})]
             priority_defects == SelectSeq(defs, IsPriority)
             callee == GlobalBinding(generate_recommendations_defs)
         IN \* generate_recommendations(category_dist, severity_dist): two positional
            \* arguments for the parameters of the definition the name is bound to
            IF Len(callee.params) # 2
            THEN Raised("TypeError")
            ELSE Returned(Len(defs), category_dist, severity_dist,
                          Prefix(priority_defects, PRIORITY_LIMIT),
                          IF callee.body = "dists"
                          THEN generate_recommendations_dists(category_dist, severity_dist)
                          ELSE generate_recommendations_defects(defs))

(***************************************************************************)
(* Inputs                                                                  *)
(***************************************************************************)
MaxParts == 2
MaxPhrases == 2
MaxDefects == 3
MaxAnalyzed == 6
MaxRequests == 3

\* all sequences of at most n elements of S
SeqsUpTo(S, n) == UNION {[1..k -> S] : k \in 0..n}

\* the pieces input texts are made of: sentences with their terminators, a
\* boilerplate line, a blank line, a sentence with no keyword of the tables
Parts == <<"Foundation crack in basement wall is critical and urgent.",
           "Minor paint peeling noted.",
           "Leak under the kitchen sink. ",
           "Water leak under kitchen sink!\n",
           "Water leak under the kitchen sink today. ",
           "Would you like me to fix the wiring?\n",
           "Severe crack, cracked 5 mm wide in foundation of room 3. ",
           "  \n",
           "Nothing unusual was observed today. ">>

Texts == {Join(parts, "") : parts \in SeqsUpTo(Range(Parts), MaxParts)}

\* the phrases sentences given to determine_severity are made of
Phrases == <<"urgent risk", "safety hazard", "critical", "non-critical", "major",
             "major structural", "minor", "minor structural", "moderate", "cosmetic",
             "crack", "Severe">>

Sentences == {Join(phrases, " ") : phrases \in SeqsUpTo(Range(Phrases), MaxPhrases)}

\* the pieces of the texts whose sentence loop is followed step by step: a
\* short line inside a sentence, sentences, a boilerplate line, two long
\* sentences with the same first 50 characters up to case, a sentence that
\* ends inside a line, a sentence without keyword, a short sentence
ScanParts == <<"Leak at\n",
               "Water leak under the kitchen sink today. ",
               "Would you like me to fix the wiring?\n",
               "Water damage was seen on the ceiling of the living room near the window. ",
               "WATER damage was seen on the ceiling of the living area by the door. ",
               "Paint flaking was observed today.",
               "Nothing unusual was observed today. ",
               "Crack.\n">>

ScanTexts == {Join(parts, "") : parts \in SeqsUpTo(Range(ScanParts), MaxParts)}

\* the documents analysed concurrently, and the callers that analyse them
Docs == {Parts[1], Parts[3] \o Parts[4], Parts[2], Parts[9]}

PROCS == {1, 2}

\* the phrases sentences given to extract_location_enhanced are made of
LocationPhrases == <<"Room 12a", "boiler room", "Kitchen", "2nd floor", "north wall",
                     "roof", "Wall", "crack">>

LocationSentences ==
    {Join(phrases, " ") : phrases \in SeqsUpTo(Range(LocationPhrases), MaxPhrases)}

\* the requests the web application is given.  file: what the request holds
\* (no file part, a file part with an empty filename, a filename that
\* allowed_file rejects, a file that is accepted); name: what secure_filename
\* makes of the filename, which has no dot any more when only the extension
\* of the filename survives; content: the text in the file
FileNames == {"report.txt", "txt"}

FileContents == {"", "  \n", Parts[9], Parts[2]}

Rejected(route, file) == [route |-> route, file |-> file, name |-> "", content |-> ""]

UploadRequests ==
    {Rejected("upload", file) : file \in {"missing", "empty_name", "bad_type"}}
    \cup {[route |-> "upload", file |-> "ok", name |-> n, content |-> c] :
             n \in FileNames, c \in FileContents}

ApiRequests ==
    {Rejected("api", file) : file \in {"missing", "bad_type"}}
    \cup {[route |-> "api", file |-> "ok", name |-> n, content |-> c] :
             n \in FileNames, c \in FileContents}

\* the uploads handled concurrently: accepted files
ConcurrentUploads ==
    {[route |-> "upload", file |-> "ok", name |-> n, content |-> c] :
        n \in {"report.txt", "survey.txt"}, c \in {"", Parts[9], Parts[2]}}

\* the threads that handle requests
HANDLERS == {1, 2}

\* defects given to deduplicate_defects: they differ in their descriptions
Descriptions == {"Leak under the kitchen sink", "Water leak under kitchen sink",
                 "Water leak under the kitchen sink today", "The and of", "...",
                 "Minor paint peeling noted"}

DefectOf(description, category, sev, confidence) ==
    [category |-> category, severity |-> sev, description |-> description,
     location |-> "Unspecified", confidence |-> confidence, keyword_matched |-> "leak"]

DedupInputs ==
    SeqsUpTo({DefectOf(d, "moisture", "medium", 60) : d \in Descriptions}, MaxDefects)

\* defects given to analyze_defects: they differ in category, severity and
\* confidence
AnalyzeInputs ==
    SeqsUpTo({DefectOf("Water leak under kitchen sink", "moisture", "critical", 84),
              DefectOf("Water leak under kitchen sink", "structural", "high", 70),
              DefectOf("Water leak under kitchen sink", "cosmetic", "low", 95)},
             MaxAnalyzed)

(***************************************************************************)
(* State.  text: the input text; pc: the position of the run; defects: the *)
(* list handed to deduplicate_defects; idx, unique_defects,                *)
(* seen_descriptions: its loop state; result: what analyze_defects         *)
(* returned or raised; run, first: the number of the run on this input     *)
(* and the input and outcome of the first run; sentence, severity: the argument and  *)
(* the value of determine_severity.                                        *)
(***************************************************************************)
NoResult == Raised("none")

NoFirst == [input |-> <<>>, defects |-> <<>>, result |-> NoResult]

\* no analysis runs concurrently
NoProcs == /\ procs = <<>>
           /\ locals = <<>>
           /\ alone = <<>>

\* the sentence loop of detect_defects_rule_based before it has run
NoScan == [sentences |-> <<>>, i |-> 1, processed_sentences |-> {}, classified |-> <<>>]

\* no request is handled
NoWeb == /\ server = <<>>
         /\ handlers = <<>>

Fresh == /\ run = 1
         /\ idx = 1
         /\ unique_defects = <<>>
         /\ seen_descriptions = {}
         /\ result = NoResult
         /\ first = NoFirst
         /\ severity = "none"
         /\ tallies = <<>>
         /\ location = "none"
         /\ NoProcs
         /\ scan = NoScan
         /\ NoWeb

\* an analysis of one text: detect_defects_rule_based, then analyze_defects
Init == /\ text \in Texts
        /\ pc = "start"
        /\ defects = <<>>
        /\ sentence = ""
        /\ Fresh

\* deduplicate_defects on a list of defects
InitDedup == /\ text = ""
             /\ pc = "dedup"
             /\ defects \in DedupInputs
             /\ sentence = ""
             /\ Fresh

\* analyze_defects on a list of defects
InitAnalyze == /\ text = ""
               /\ pc = "detected"
               /\ defects = <<>>
               /\ sentence = ""
               /\ run = 1
               /\ idx = 1
               /\ unique_defects \in AnalyzeInputs
               /\ seen_descriptions = {}
               /\ result = NoResult
               /\ first = NoFirst
               /\ severity = "none"
               /\ tallies = <<>>
               /\ location = "none"
               /\ NoProcs
               /\ scan = NoScan
               /\ NoWeb

\* determine_severity on a sentence
InitSeverity == /\ text = ""
                /\ pc = "severity"
                /\ defects = <<>>
                /\ sentence \in Sentences
                /\ Fresh

\* extract_location_enhanced on a sentence
InitLocation == /\ text = ""
                /\ pc = "location"
                /\ defects = <<>>
                /\ sentence \in LocationSentences
                /\ Fresh

\* detect_defects_rule_based on a text, its sentence loop followed step by step
InitScan == /\ text \in ScanTexts
            /\ pc = "segment"
            /\ defects = <<>>
            /\ sentence = ""
            /\ run = 1
            /\ idx = 1
            /\ unique_defects = <<>>
            /\ seen_descriptions = {}
            /\ result = NoResult
            /\ first = NoFirst
            /\ severity = "none"
            /\ tallies = <<>>
            /\ location = "none"
            /\ NoProcs
            /\ scan = NoScan
            /\ NoWeb

\* analytics_data as the module creates it (last_reset, a date, left out)
InitialAnalytics ==
    [total_reports |-> 0, total_defects |-> 0, reports_today |-> 0,
     defect_categories |-> <<>>,
     severity_distribution |-> [low |-> 0, medium |-> 0, high |-> 0, critical |-> 0]]

\* the application after initialize_app with no analytics file: the counters,
\* the analytics file, the files of the upload folder with their contents,
\* the rows of the tables reports and defects
InitialServer ==
    [analytics |-> InitialAnalytics, analytics_file |-> <<>>, files |-> <<>>,
     reports |-> <<>>, defect_rows |-> <<>>]

\* what a request can change outside the upload folder, as it is when the
\* request arrives
Snapshot(srv) ==
    [analytics |-> srv.analytics, reports |-> srv.reports, defect_rows |-> srv.defect_rows]

\* a thread that handles no request
Idle ==
    [pc |-> "idle", route |-> "none", name |-> "", saved |-> FALSE, text |-> "",
     defects |-> <<>>, analysis |-> NoResult, counter |-> 1, tmp |-> 0,
     outcome |-> "none", served |-> 0, before |-> Snapshot(InitialServer)]

\* requests handled by the web application
InitWeb == /\ text = ""
           /\ pc = "web"
           /\ defects = <<>>
           /\ sentence = ""
           /\ run = 1
           /\ idx = 1
           /\ unique_defects = <<>>
           /\ seen_descriptions = {}
           /\ result = NoResult
           /\ first = NoFirst
           /\ severity = "none"
           /\ tallies = <<>>
           /\ location = "none"
           /\ NoProcs
           /\ scan = NoScan
           /\ server = InitialServer
           /\ handlers = [h \in HANDLERS |-> Idle]

\* the locals of a call of detect_defects_rule_based before it has run
NoLocals == [defects |-> <<>>, idx |-> 1, unique_defects |-> <<>>, seen_descriptions |-> {}]

\* two callers, each about to analyse a document of its own; alone holds what
\* the analysis of each document gives when nothing else runs
InitConc == /\ text = ""
            /\ pc = "concurrent"
            /\ defects = <<>>
            /\ sentence = ""
            /\ run = 1
            /\ idx = 1
            /\ unique_defects = <<>>
            /\ seen_descriptions = {}
            /\ result = NoResult
            /\ first = NoFirst
            /\ severity = "none"
            /\ tallies = <<>>
            /\ location = "none"
            /\ procs \in {f \in [PROCS -> {[text |-> t, pc |-> "start", defects |-> <<>>,
                                            result |-> NoResult] : t \in Docs}] :
                             \A p, q \in PROCS : p # q => f[p].text # f[q].text}
            /\ locals = [f \in PROCS |-> NoLocals]
            /\ alone = [p \in PROCS |->
                          LET found == detect_defects_rule_based(procs[p].text)
                          IN [defects |-> found, result |-> analyze_defects(found)]]
            /\ scan = NoScan
            /\ NoWeb

(***************************************************************************)
(* Actions                                                                 *)
(***************************************************************************)
\* detect_defects_rule_based up to the call of deduplicate_defects
DetectCandidates ==
    /\ pc = "start"
    /\ defects' = Candidates(text)
    /\ idx' = 1
    /\ unique_defects' = <<>>
    /\ seen_descriptions' = {}
    /\ pc' = "dedup"
    /\ UNCHANGED <<text, run, result, first, sentence, severity, tallies, location,
                   concurrent,
                   scan, web>>

\* one iteration of the loop of deduplicate_defects
DedupStep ==
    /\ pc = "dedup"
    /\ defects # <<>>
    /\ idx <= Len(defects)
    /\ LET defect == defects[idx]
           desc_key == normalize_description(defect.description)
       IN \E order \in Orders(seen_descriptions) :
            LET is_duplicate == IsDuplicate(order, desc_key)
            IN /\ unique_defects' = IF is_duplicate THEN unique_defects
                                    ELSE Accepted(unique_defects, defect)
               /\ seen_descriptions' = IF is_duplicate THEN seen_descriptions
                                       ELSE seen_descriptions \cup {desc_key}
    /\ idx' = idx + 1
    /\ UNCHANGED <<text, pc, run, defects, result, first, sentence, severity, tallies, location,
                   concurrent,
                   scan, web>>

\* deduplicate_defects returns: the empty list as it is, else unique_defects
DedupReturn ==
    /\ pc = "dedup"
    /\ defects = <<>> \/ idx > Len(defects)
    /\ unique_defects' = IF defects = <<>> THEN defects ELSE unique_defects
    /\ pc' = "detected"
    /\ UNCHANGED <<text, run, defects, idx, seen_descriptions, result, first, sentence,
                   severity, tallies, location,
                   concurrent,
                   scan, web>>

\* analyze_defects on the list detect_defects_rule_based returned
AnalyzeDefects ==
    /\ pc = "detected"
    /\ result' = analyze_defects(unique_defects)
    /\ pc' = "done"
    /\ UNCHANGED <<text, run, defects, idx, unique_defects, seen_descriptions, first,
                   sentence, severity, tallies, location,
                   concurrent,
                   scan, web>>

\* a second analysis of the same text
Rerun ==
    /\ pc = "done"
    /\ run = 1
    /\ first' = [input |-> defects, defects |-> unique_defects, result |-> result]
    /\ run' = 2
    /\ pc' = "start"
    /\ defects' = <<>>
    /\ idx' = 1
    /\ unique_defects' = <<>>
    /\ seen_descriptions' = {}
    /\ result' = NoResult
    /\ UNCHANGED <<text, sentence, severity, tallies, location,
                   concurrent,
                   scan, web>>

\* deduplicate_defects applied to its own output
DedupAgain ==
    /\ pc = "detected"
    /\ run = 1
    /\ first' = [input |-> defects, defects |-> unique_defects, result |-> NoResult]
    /\ run' = 2
    /\ pc' = "dedup"
    /\ defects' = unique_defects
    /\ idx' = 1
    /\ unique_defects' = <<>>
    /\ seen_descriptions' = {}
    /\ UNCHANGED <<text, result, sentence, severity, tallies, location,
                   concurrent,
                   scan, web>>

DetermineSeverity ==
    /\ pc = "severity"
    /\ severity' = determine_severity(sentence)
    /\ tallies' = severity_scores(Lower(sentence))
    /\ pc' = "done"
    /\ UNCHANGED <<text, run, defects, idx, unique_defects, seen_descriptions, result,
                   first, sentence, location, concurrent,
                   scan, web>>

\* variant: the locals of the analysis kept at module level, one copy for all
\* callers
ModuleLevel(p) == 1

\* the frame that holds the locals of the call caller p makes
FrameOf(p) == p

\* caller p: detect_defects_rule_based up to the call of deduplicate_defects
ProcDetect(p) ==
    /\ procs[p].pc = "start"
    /\ locals' = [locals EXCEPT ![FrameOf(p)] =
                     [defects |-> Candidates(procs[p].text), idx |-> 1,
                      unique_defects |-> <<>>, seen_descriptions |-> {}]]
    /\ procs' = [procs EXCEPT ![p].pc = "dedup"]
    /\ UNCHANGED <<text, pc, run, defects, idx, unique_defects, seen_descriptions, result,
                   first, sentence, severity, tallies, location, alone,
                   scan, web>>

\* caller p: one iteration of the loop of deduplicate_defects
ProcDedupStep(p) ==
    LET l == locals[FrameOf(p)]
    IN /\ procs[p].pc = "dedup"
       /\ l.defects # <<>>
       /\ l.idx <= Len(l.defects)
       /\ LET defect == l.defects[l.idx]
              desc_key == normalize_description(defect.description)
          IN \E order \in Orders(l.seen_descriptions) :
               LET is_duplicate == IsDuplicate(order, desc_key)
               IN locals' = [locals EXCEPT ![FrameOf(p)] =
                    [defects |-> l.defects,
                     idx |-> l.idx + 1,
                     unique_defects |-> IF is_duplicate THEN l.unique_defects
                                        ELSE Accepted(l.unique_defects, defect),
                     seen_descriptions |-> IF is_duplicate THEN l.seen_descriptions
                                           ELSE l.seen_descriptions \cup {desc_key}]]
       /\ UNCHANGED <<text, pc, run, defects, idx, unique_defects, seen_descriptions,
                      result, first, sentence, severity, tallies, location, procs, alone,
                   scan, web>>

\* caller p: deduplicate_defects and detect_defects_rule_based return
ProcDedupReturn(p) ==
    LET l == locals[FrameOf(p)]
    IN /\ procs[p].pc = "dedup"
       /\ l.defects = <<>> \/ l.idx > Len(l.defects)
       /\ procs' = [procs EXCEPT ![p].pc = "detected",
                                 ![p].defects = IF l.defects = <<>> THEN l.defects
                                                ELSE l.unique_defects]
       /\ UNCHANGED <<text, pc, run, defects, idx, unique_defects, seen_descriptions,
                      result, first, sentence, severity, tallies, location, locals, alone,
                   scan, web>>

\* caller p: analyze_defects on the list detect_defects_rule_based returned
ProcAnalyze(p) ==
    /\ procs[p].pc = "detected"
    /\ procs' = [procs EXCEPT ![p].pc = "done",
                              ![p].result = analyze_defects(procs[p].defects)]
    /\ UNCHANGED <<text, pc, run, defects, idx, unique_defects, seen_descriptions, result,
                   first, sentence, severity, tallies, location, locals, alone,
                   scan, web>>

ExtractLocation ==
    /\ pc = "location"
    /\ location' = extract_location_enhanced(sentence)
    /\ pc' = "done"
    /\ UNCHANGED <<text, run, defects, idx, unique_defects, seen_descriptions, result,
                   first, sentence, severity, tallies, concurrent,
                   scan, web>>

\* detect_defects_rule_based up to its sentence loop: the filter, then the split
SegmentText ==
    /\ pc = "segment"
    /\ scan' = [sentences |-> Segmented(text), i |-> 1, processed_sentences |-> {},
                classified |-> <<>>]
    /\ defects' = <<>>
    /\ pc' = "sentences"
    /\ UNCHANGED <<text, run, idx, unique_defects, seen_descriptions, result, first,
                   sentence, severity, tallies, location, concurrent, web>>

\* one iteration of the sentence loop
SentenceStep ==
    /\ pc = "sentences"
    /\ scan.i <= Len(scan.sentences)
    /\ LET sent == Strip(scan.sentences[scan.i])
           sentence_key == SentenceKey(sent)
           skipped == Len(sent) < MIN_SENTENCE_LEN \/ sentence_key \in scan.processed_sentences
       IN /\ scan' = [sentences |-> scan.sentences,
                      i |-> scan.i + 1,
                      processed_sentences |-> IF skipped THEN scan.processed_sentences
                                              ELSE scan.processed_sentences \cup {sentence_key},
                      classified |-> IF skipped THEN scan.classified
                                     ELSE Append(scan.classified, sent)]
          /\ defects' = IF skipped THEN defects ELSE defects \o SentenceCandidates(sent)
    /\ UNCHANGED <<text, pc, run, idx, unique_defects, seen_descriptions, result, first,
                   sentence, severity, tallies, location, concurrent, web>>

\* the sentence loop ends
ScanReturn ==
    /\ pc = "sentences"
    /\ scan.i > Len(scan.sentences)
    /\ pc' = "scanned"
    /\ UNCHANGED <<text, run, defects, idx, unique_defects, seen_descriptions, result,
                   first, sentence, severity, tallies, location, concurrent, scan, web>>

\* what the request handlers leave alone
Pipeline ==
    <<text, pc, run, defects, idx, unique_defects, seen_descriptions, result, first,
      sentence, severity, tallies, location, concurrent, scan>>

\* file.save(filepath)
SaveFile(files, name, content) ==
    [n \in DOMAIN files \cup {name} |-> IF n = name THEN content ELSE files[n]]

\* if os.path.exists(filepath): os.remove(filepath)
RemoveFile(files, name) == [n \in DOMAIN files \ {name} |-> files[n]]

\* the request a handler has finished with
Finished(handler, outcome) == [handler EXCEPT !.pc = "done", !.outcome = outcome]

\* upload_file up to file.save: a request without a file part, with an empty
\* filename or with a filename that is not allowed is answered by a redirect;
\* the file of any other request is saved under its secured name.  A thread
\* handles at most limit requests, one after the other
UploadReceive(h, request, limit) ==
    /\ handlers[h].pc \in {"idle", "done"}
    /\ handlers[h].served < limit
    /\ request.route = "upload"
    /\ LET handler == [Idle EXCEPT !.route = "upload", !.name = request.name,
                                   !.served = handlers[h].served + 1,
                                   !.before = Snapshot(server)]
       IN IF request.file # "ok"
          THEN /\ handlers' = [handlers EXCEPT ![h] = Finished(handler, "redirect")]
               /\ UNCHANGED server
          ELSE /\ server' = [server EXCEPT
                                !.files = SaveFile(server.files, request.name, request.content)]
               /\ handlers' = [handlers EXCEPT
                                  ![h] = [handler EXCEPT !.pc = "extract", !.saved = TRUE]]
    /\ UNCHANGED Pipeline

\* api_analyze up to file.save: a request without a file part or with a
\* filename that is not allowed is answered with status 400
ApiReceive(h, request, limit) ==
    /\ handlers[h].pc \in {"idle", "done"}
    /\ handlers[h].served < limit
    /\ request.route = "api"
    /\ LET handler == [Idle EXCEPT !.route = "api", !.name = request.name,
                                   !.served = handlers[h].served + 1,
                                   !.before = Snapshot(server)]
       IN IF request.file # "ok"
          THEN /\ handlers' = [handlers EXCEPT ![h] = Finished(handler, "400")]
               /\ UNCHANGED server
          ELSE /\ server' = [server EXCEPT
                                !.files = SaveFile(server.files, request.name, request.content)]
               /\ handlers' = [handlers EXCEPT
                                  ![h] = [handler EXCEPT !.pc = "extract", !.saved = TRUE]]
    /\ UNCHANGED Pipeline

\* the handler's except clause: upload_file's inner one, api_analyze's only one
ExceptClause(route) == IF route = "upload" THEN "except" ELSE "api_except"

\* extract_text_from_file(filepath): filepath.rsplit('.', 1)[1] is evaluated
\* before the try and raises IndexError for a path without a dot; a file that
\* cannot be read gives the empty text
ExtractText(h) ==
    /\ handlers[h].pc = "extract"
    /\ LET handler == handlers[h]
       IN handlers' = [handlers EXCEPT ![h] =
             IF ~In(".", handler.name)
             THEN [handler EXCEPT !.pc = ExceptClause(handler.route)]
             ELSE [handler EXCEPT
                      !.text = IF handler.name \in DOMAIN server.files
                               THEN server.files[handler.name] ELSE "",
                      !.pc = IF handler.route = "upload" THEN "check_text" ELSE "analyze"]]
    /\ UNCHANGED <<server, Pipeline>>

\* upload_file: if not extracted_text.strip(), the file is removed and the
\* request answered by a redirect
CheckText(h) ==
    /\ handlers[h].pc = "check_text"
    /\ IF Strip(handlers[h].text) = ""
       THEN /\ server' = [server EXCEPT !.files = RemoveFile(server.files, handlers[h].name)]
            /\ handlers' = [handlers EXCEPT ![h] = Finished(handlers[h], "no_text")]
       ELSE /\ handlers' = [handlers EXCEPT ![h].pc = "analyze"]
            /\ UNCHANGED server
    /\ UNCHANGED Pipeline

\* where the handler goes on after analyze_defects: to its except clause when
\* the call raised
AfterAnalysisRegardless(route, analysis) ==
    IF route = "upload" THEN "read" ELSE "api_remove"

AfterAnalysis(route, analysis) ==
    IF analysis.status # "returned" THEN ExceptClause(route)
    ELSE IF route = "upload" THEN "read" ELSE "api_remove"

\* defects = detect_defects_rule_based(text); analysis = analyze_defects(defects)
Analyse(h) ==
    /\ handlers[h].pc = "analyze"
    /\ LET found == detect_defects_rule_based(handlers[h].text)
           analysis == analyze_defects(found)
       IN handlers' = [handlers EXCEPT ![h].defects = found,
                                       ![h].analysis = analysis,
                                       ![h].pc = AfterAnalysis(handlers[h].route, analysis)]
    /\ UNCHANGED <<server, Pipeline>>

\* the counters upload_file increments, in the order of its statements
ANALYTICS_COUNTERS == <<"total_reports", "reports_today", "total_defects">>

\* what upload_file adds to a counter
IncrementDefectsOnly(counter, analysis) ==
    IF counter = "total_defects" THEN analysis.total_defects
    ELSE IF counter = "reports_today" THEN 1 ELSE 0

Increment(counter, analysis) ==
    IF counter = "total_defects" THEN analysis.total_defects ELSE 1

\* analytics_data[counter] += ..., first half: the value of the counter is read
ReadCounter(h) ==
    /\ handlers[h].pc = "read"
    /\ handlers' = [handlers EXCEPT
                       ![h].tmp = server.analytics[ANALYTICS_COUNTERS[handlers[h].counter]],
                       ![h].pc = "write"]
    /\ UNCHANGED <<server, Pipeline>>

\* analytics_data[counter] += ..., second half: the sum is stored
WriteCounter(h) ==
    /\ handlers[h].pc = "write"
    /\ LET handler == handlers[h]
           counter == ANALYTICS_COUNTERS[handler.counter]
       IN /\ server' = [server EXCEPT
                           !.analytics[counter] =
                               handler.tmp + Increment(counter, handler.analysis)]
          /\ handlers' = [handlers EXCEPT ![h] =
                IF handler.counter = Len(ANALYTICS_COUNTERS)
                THEN [handler EXCEPT !.pc = "distributions"]
                ELSE [handler EXCEPT !.pc = "read", !.counter = handler.counter + 1]]
    /\ UNCHANGED Pipeline

\* the two loops over the distributions of the analysis, then save_analytics()
UpdateDistributions(h) ==
    /\ handlers[h].pc = "distributions"
    /\ LET analysis == handlers[h].analysis
           categories == server.analytics.defect_categories
           severities == server.analytics.severity_distribution
           updated == [server.analytics EXCEPT
                          !.defect_categories =
                              [category \in DOMAIN categories
                                            \cup DOMAIN analysis.category_distribution |->
                                  IF category \in DOMAIN analysis.category_distribution
                                  THEN Get(categories, category)
                                       + analysis.category_distribution[category]
                                  ELSE categories[category]],
                          !.severity_distribution =
                              [sev \in DOMAIN severities |->
                                  severities[sev] + Get(analysis.severity_distribution, sev)]]
       IN server' = [server EXCEPT !.analytics = updated, !.analytics_file = updated]
    /\ handlers' = [handlers EXCEPT ![h].pc = "store"]
    /\ UNCHANGED Pipeline

\* the report and its defects are inserted and committed, or the database
\* fails and the handler goes on without them
StoreReport(h) ==
    /\ handlers[h].pc = "store"
    /\ \E stored \in BOOLEAN :
          LET handler == handlers[h]
              report_id == Len(server.reports) + 1
          IN server' =
                IF stored
                THEN [server EXCEPT
                         !.reports = Append(@, [filename |-> handler.name,
                                                total_defects |-> handler.analysis.total_defects]),
                         !.defect_rows = @ \o [i \in 1..Len(handler.defects) |->
                                                  [report_id |-> report_id,
                                                   defect |-> handler.defects[i]]]]
                ELSE server
    /\ handlers' = [handlers EXCEPT ![h].pc = "cleanup"]
    /\ UNCHANGED Pipeline

\* upload_file removes the file and renders the results
CleanUp(h) ==
    /\ handlers[h].pc = "cleanup"
    /\ server' = [server EXCEPT !.files = RemoveFile(server.files, handlers[h].name)]
    /\ handlers' = [handlers EXCEPT ![h] = Finished(handlers[h], "rendered")]
    /\ UNCHANGED Pipeline

\* except Exception as processing_error: the file is removed, the request
\* answered by a redirect
UploadExcept(h) ==
    /\ handlers[h].pc = "except"
    /\ server' = [server EXCEPT !.files = RemoveFile(server.files, handlers[h].name)]
    /\ handlers' = [handlers EXCEPT ![h] = Finished(handlers[h], "error")]
    /\ UNCHANGED Pipeline

\* api_analyze: os.remove(filepath), which raises when the file is gone, then
\* the JSON answer
ApiRemove(h) ==
    /\ handlers[h].pc = "api_remove"
    /\ IF handlers[h].name \in DOMAIN server.files
       THEN /\ server' = [server EXCEPT !.files = RemoveFile(server.files, handlers[h].name)]
            /\ handlers' = [handlers EXCEPT ![h] = Finished(handlers[h], "json")]
       ELSE /\ handlers' = [handlers EXCEPT ![h].pc = "api_except"]
            /\ UNCHANGED server
    /\ UNCHANGED Pipeline

\* api_analyze: except Exception as e: the answer has status 500
ApiExcept(h) ==
    /\ handlers[h].pc = "api_except"
    /\ handlers' = [handlers EXCEPT ![h] = Finished(handlers[h], "500")]
    /\ UNCHANGED <<server, Pipeline>>

Next == DetectCandidates \/ DedupStep \/ DedupReturn \/ AnalyzeDefects \/ Rerun

NextDedup == DedupStep \/ DedupReturn \/ DedupAgain

NextAnalyze == AnalyzeDefects

NextSeverity == DetermineSeverity

NextConc == \E p \in PROCS : ProcDetect(p) \/ ProcDedupStep(p) \/ ProcDedupReturn(p)
                                \/ ProcAnalyze(p)

Spec == Init /\ [][Next]_vars

SpecDedup == InitDedup /\ [][NextDedup]_vars

SpecAnalyze == InitAnalyze /\ [][NextAnalyze]_vars

SpecSeverity == InitSeverity /\ [][NextSeverity]_vars

SpecConc == InitConc /\ [][NextConc]_vars

NextLocation == ExtractLocation

NextScan == SegmentText \/ SentenceStep \/ ScanReturn

SpecLocation == InitLocation /\ [][NextLocation]_vars

SpecScan == InitScan /\ [][NextScan]_vars

\* one thread handles requests one after the other
NextWeb ==
    \/ \E request \in UploadRequests : UploadReceive(1, request, MaxRequests)
    \/ \E request \in ApiRequests : ApiReceive(1, request, MaxRequests)
    \/ ExtractText(1) \/ CheckText(1) \/ Analyse(1)
    \/ ReadCounter(1) \/ WriteCounter(1) \/ UpdateDistributions(1)
    \/ StoreReport(1) \/ CleanUp(1) \/ UploadExcept(1)
    \/ ApiRemove(1) \/ ApiExcept(1)

\* each thread handles one upload, the threads interleave
NextUploads ==
    \E h \in HANDLERS :
        \/ \E request \in ConcurrentUploads : UploadReceive(h, request, 1)
        \/ ExtractText(h) \/ CheckText(h) \/ Analyse(h)
        \/ ReadCounter(h) \/ WriteCounter(h) \/ UpdateDistributions(h)
        \/ StoreReport(h) \/ CleanUp(h) \/ UploadExcept(h)

SpecWeb == InitWeb /\ [][NextWeb]_vars

SpecUploads == InitWeb /\ [][NextUploads]_vars
(***************************************************************************)
(* Properties                                                              *)
(***************************************************************************)
SeverityLabels == {"critical", "high", "medium", "low"}

\* C1: for every input text, detect_defects_rule_based followed by
\* analyze_defects completes and returns an AnalysisResult; it never raises,
\* whether the defect list is empty or not.
C1_NeverRaises == pc = "done" => result.status = "returned"

\* no severity keyword and no critical-indicator phrase occurs in s
NoSeveritySignal(s) ==
    /\ \A v \in SeverityLabels : ~AnyIn(SEVERITY_KEYWORDS[v], Lower(s))
    /\ ~AnyIn(critical_indicators, Lower(s))

\* C2: determine_severity returns exactly one label of critical, high, medium,
\* low for every sentence, and medium whenever the sentence contains no
\* severity keyword and no critical-indicator phrase.
C2_SeverityLabel ==
    pc = "done" => /\ severity \in SeverityLabels
                   /\ NoSeveritySignal(sentence) => severity = "medium"

C2_Witness == pc = "done" /\ sentence = "crack" /\ severity = "medium"

\* C3: every defect in the list detect_defects_rule_based returns has a
\* confidence between 0.4 and 0.95 (40 and 95 hundredths).
C3_ConfidenceRange ==
    pc \in {"detected", "done"} =>
        \A i \in 1..Len(unique_defects) :
            40 <= unique_defects[i].confidence /\ unique_defects[i].confidence <= 95

\* a returned defect whose factors add up to more than 0.95 and is capped
C3_Witness ==
    /\ pc = "detected"
    /\ \E i \in 1..Len(unique_defects) :
          /\ unique_defects[i].confidence = 95
          /\ unique_defects[i].description
               = "Severe crack, cracked 5 mm wide in foundation of room 3"

\* C4: deduplicate_defects is idempotent: applied to its own output it
\* returns that output, same elements in the same order.
C4_Idempotent == (run = 2 /\ pc = "detected") => unique_defects = first.defects

\* the first pass discarded a defect and kept at least two; the second pass
\* has returned
C4_Witness ==
    /\ run = 2
    /\ pc = "detected"
    /\ Len(first.defects) < Len(first.input)
    /\ Len(unique_defects) >= 2

\* C5: analyze_defects of the empty list returns total_defects = 0 and a
\* severity_distribution with the four keys critical, high, medium, low, all 0.
C5_EmptyZeroFilled ==
    (pc = "done" /\ unique_defects = <<>>) =>
        /\ result.status = "returned"
        /\ result.total_defects = 0
        /\ DOMAIN result.severity_distribution = SeverityLabels
        /\ \A v \in DOMAIN result.severity_distribution : result.severity_distribution[v] = 0

\* C6: for every defect list, the values of category_distribution and those
\* of severity_distribution each sum to total_defects, the length of the list.
C6_DistributionsSum ==
    pc = "done" =>
        /\ result.status = "returned"
        /\ result.total_defects = Len(unique_defects)
        /\ SumValues(result.category_distribution) = result.total_defects
        /\ SumValues(result.severity_distribution) = result.total_defects

\* C7: for every defect list, priority_defects has at most 5 elements, all of
\* them defects of the list with severity high or critical and confidence
\* above 0.7.
C7_PrioritySubset ==
    pc = "done" =>
        /\ result.status = "returned"
        /\ Len(result.priority_defects) <= 5
        /\ \A i \in 1..Len(result.priority_defects) :
              /\ result.priority_defects[i] \in Range(unique_defects)
              /\ result.priority_defects[i].severity \in {"high", "critical"}
              /\ result.priority_defects[i].confidence > 70

\* C8: for an empty or whitespace-only text the analysis yields an empty
\* priority list and exactly one recommendation, the informational entry that
\* no defects were detected.
C8_EmptyTextInformational ==
    (pc = "done" /\ Strip(text) = "") =>
        /\ result.status = "returned"
        /\ result.priority_defects = <<>>
        /\ Len(result.recommendations) = 1

\* the defects of the returned list that describe sentence d1 or d2
RemainingFor(d1, d2) ==
    {k \in 1..Len(unique_defects) : unique_defects[k].description \in {d1, d2}}

\* the Jaccard similarity of the normalized descriptions d1 and d2
Jaccard(d1, d2) == calculate_similarity(normalize_description(d1), normalize_description(d2))

\* C9 as stated: two sentences of a document that each yield a candidate and
\* whose normalized descriptions have Jaccard similarity at least 0.8 (4 of 5
\* tokens included) leave only one defect after deduplicate_defects.
C9_CollapseAtLeast ==
    pc = "detected" =>
        \A i, j \in 1..Len(defects) :
            (/\ defects[i].description # defects[j].description
             /\ 5 * Jaccard(defects[i].description, defects[j].description)[1]
                  >= 4 * Jaccard(defects[i].description, defects[j].description)[2])
            => Cardinality(RemainingFor(defects[i].description, defects[j].description)) <= 1

\* C9 amended: similarity strictly greater than 0.8 leaves only one defect for
\* the two sentences.
C9_CollapseAbove ==
    pc = "detected" =>
        \A i, j \in 1..Len(defects) :
            (/\ defects[i].description # defects[j].description
             /\ 5 * Jaccard(defects[i].description, defects[j].description)[1]
                  > 4 * Jaccard(defects[i].description, defects[j].description)[2])
            => Cardinality(RemainingFor(defects[i].description, defects[j].description)) <= 1

\* two sentences with 5 of 6 tokens shared, of which one defect remains
C9_Witness ==
    /\ pc = "detected"
    /\ \E i, j \in 1..Len(defects) :
          /\ defects[i].description = "Water leak under kitchen sink"
          /\ defects[j].description = "Water leak under the kitchen sink today"
          /\ Jaccard(defects[i].description, defects[j].description) = <<5, 6>>
          /\ Cardinality(RemainingFor(defects[i].description, defects[j].description)) = 1

\* C10: two runs of detect_defects_rule_based and analyze_defects on the same
\* text end with the same defect list and the same outcome of analyze_defects,
\* whatever the iteration order of seen_descriptions in either run.
C10_Deterministic ==
    (run = 2 /\ pc = "done") => unique_defects = first.defects /\ result = first.result

\* a second run that has finished, in which seen_descriptions held two keys
\* while defects remained to be compared
C10_Witness ==
    /\ run = 2
    /\ pc = "done"
    /\ Cardinality(seen_descriptions) >= 2
    /\ Len(defects) > Len(unique_defects)
    /\ unique_defects = first.defects
\* C11: two analyses of different documents that run concurrently, their
\* steps interleaved in any order, each return what the analysis of the same
\* document returns when it runs alone: the same defect list and the same
\* outcome of analyze_defects.
C11_SameAsAlone ==
    \A p \in DOMAIN procs :
        /\ procs[p].pc \in {"detected", "done"} => procs[p].defects = alone[p].defects
        /\ procs[p].pc = "done" => procs[p].result = alone[p].result

\* caller 1 has finished the analysis of a document with several defects
\* while caller 2 is in the middle of the deduplication of another
C11_Witness ==
    /\ procs # <<>>
    /\ procs[1].pc = "done"
    /\ Len(procs[1].defects) >= 2
    /\ procs[1].result = alone[1].result
    /\ procs[2].pc = "dedup"
    /\ locals[2].idx = 2
    /\ locals[2].unique_defects # <<>>
    /\ procs[2].text # procs[1].text

\* a text that contains word w between positions i and i + Len(w) - 1
OccursAt(w, t, i) == i + Len(w) - 1 <= Len(t) /\ SubSeq(t, i, i + Len(w) - 1) = w

\* no sentence of text t contains a keyword of the category table
NoCategoryKeyword(t) ==
    \A sent \in {Lower(part) : part \in Range(SplitSentences(t))} :
        \A category \in Range(CATEGORY_ORDER) :
            \A keyword \in Range(DEFECT_CATEGORIES[category]) :
                \A i \in 1..Len(sent) : ~OccursAt(keyword, sent, i)

\* C12: for a text in which no sentence contains a keyword of the category
\* table, detect_defects_rule_based returns the empty list and the analysis
\* result has total_defects = 0.
C12_NoKeywordNoDefect ==
    pc \in {"detected", "done"} =>
        \/ /\ unique_defects = <<>>
           /\ pc = "done" => result.status = "returned" /\ result.total_defects = 0
        \/ ~NoCategoryKeyword(text)

\* the analysis of a text with a sentence of classifiable length but no
\* keyword has returned
C12_Witness ==
    /\ pc = "done"
    /\ text = Parts[9] \o Parts[9]
    /\ NoCategoryKeyword(text)
    /\ unique_defects = <<>>
    /\ result.total_defects = 0

\* text t contains word w
Occurs(w, t) == \E i \in 1..Len(t) : OccursAt(w, t, i)

\* C13: for the input "Foundation crack in basement wall is critical and
\* urgent." detect_defects_rule_based returns a defect with category
\* structural, severity critical, a location that contains "basement" in any
\* case, and a confidence above 0.4.
C13_FoundationCrack ==
    (pc \in {"detected", "done"}
     /\ text = "Foundation crack in basement wall is critical and urgent.") =>
        \E i \in DOMAIN unique_defects :
            /\ unique_defects[i].category = "structural"
            /\ unique_defects[i].severity = "critical"
            /\ Occurs("basement", Lower(unique_defects[i].location))
            /\ unique_defects[i].confidence > 40

\* detect_defects_rule_based has returned for that input: one defect, found
\* by the keyword crack, located in the basement
C13_Witness ==
    /\ pc = "detected"
    /\ text = "Foundation crack in basement wall is critical and urgent."
    /\ Len(unique_defects) = 1
    /\ unique_defects[1].keyword_matched = "crack"
    /\ unique_defects[1].location = "Basement"
    /\ unique_defects[1].confidence = 84

\* C14: for the input "Minor paint peeling noted." detect_defects_rule_based
\* returns exactly one defect, with category cosmetic, severity low and
\* location "Unspecified".
C14_MinorPaint ==
    (pc \in {"detected", "done"} /\ text = "Minor paint peeling noted.") =>
        /\ Len(unique_defects) = 1
        /\ unique_defects[1].category = "cosmetic"
        /\ unique_defects[1].severity = "low"
        /\ unique_defects[1].location = "Unspecified"

\* detect_defects_rule_based has returned for that input: the defect found by
\* the keyword paint
C14_Witness ==
    /\ pc = "detected"
    /\ text = "Minor paint peeling noted."
    /\ Len(unique_defects) = 1
    /\ unique_defects[1].keyword_matched = "paint"
    /\ unique_defects[1].description = "Minor paint peeling noted"
    /\ unique_defects[1].confidence = 60

\* list a is list b with some of its elements left out
RECURSIVE IsSubsequence(_, _)
IsSubsequence(a, b) ==
    IF a = <<>> THEN TRUE
    ELSE IF b = <<>> THEN FALSE
    ELSE IF Head(a) = Head(b) THEN IsSubsequence(Tail(a), Tail(b))
    ELSE IsSubsequence(a, Tail(b))

\* C15: the list deduplicate_defects returns for the list L is a subsequence
\* of L (elements of L only, none more often than in L, in the order of L),
\* and when L is not empty its first element is the first element of L.
C15_Subsequence ==
    pc = "detected" =>
        /\ IsSubsequence(unique_defects, defects)
        /\ defects # <<>> => unique_defects # <<>> /\ unique_defects[1] = defects[1]

\* deduplicate_defects has returned the first and the third of three
\* different defects
C15_Witness ==
    /\ pc = "detected"
    /\ run = 1
    /\ Len(defects) = 3
    /\ defects[2] \notin {defects[1], defects[3]}
    /\ unique_defects = <<defects[1], defects[3]>>

\* the similarity of defect d to an accepted defect is above 0.8
SimilarToAccepted(d, accepted) ==
    \E k \in 1..Len(accepted) :
        5 * Jaccard(d.description, accepted[k].description)[1]
            > 4 * Jaccard(d.description, accepted[k].description)[2]

\* C16: deduplicate_defects takes the defects in input order and discards a
\* defect exactly when the similarity of its normalized description to that of
\* some defect accepted before it is strictly greater than 0.8; a defect whose
\* similarity to every accepted defect is at most 0.8 is accepted (appended).
C16_DiscardIffAbove ==
    [][(pc = "dedup" /\ idx' # idx) =>
          /\ idx' = idx + 1
          /\ SimilarToAccepted(defects[idx], unique_defects)
                => unique_defects' = unique_defects
          /\ ~SimilarToAccepted(defects[idx], unique_defects)
                => unique_defects' = Append(unique_defects, defects[idx])]_vars

\* of three defects the second, at similarity exactly 0.8 to the first, was
\* accepted and the third, at 5/6 to the second, was discarded
C16_Witness ==
    /\ pc = "detected"
    /\ run = 1
    /\ Len(defects) = 3
    /\ Jaccard(defects[2].description, defects[1].description) = <<4, 5>>
    /\ Jaccard(defects[3].description, defects[2].description) = <<5, 6>>
    /\ unique_defects = <<defects[1], defects[2]>>

\* the position of a category in the table
CategoryIndex(category) == CHOOSE c \in 1..Len(CATEGORY_ORDER) : CATEGORY_ORDER[c] = category

\* keyword w is the first keyword of the list that sentence s contains
FirstContained(w, keywords, s) ==
    \E k \in 1..Len(keywords) :
        /\ keywords[k] = w
        /\ Occurs(w, s)
        /\ \A j \in 1..(k - 1) : ~Occurs(keywords[j], s)

\* C17: among the candidates detect_defects_rule_based emits (the list before
\* deduplication), a sentence has at most one candidate per category, found
\* by the first keyword of the category's list that the sentence contains;
\* the candidates of one sentence for several categories follow the order of
\* the category table.
C17_OnePerCategory ==
    pc \in {"dedup", "detected", "done"} =>
        /\ \A i, j \in 1..Len(defects) :
              (i < j /\ defects[i].description = defects[j].description)
              => CategoryIndex(defects[i].category) < CategoryIndex(defects[j].category)
        /\ \A i \in 1..Len(defects) :
              FirstContained(defects[i].keyword_matched,
                             DEFECT_CATEGORIES[defects[i].category],
                             Lower(defects[i].description))

\* the candidates of two sentences: one with three structural keywords and a
\* single structural candidate, one with a moisture and a plumbing candidate
C17_Witness ==
    /\ pc = "dedup"
    /\ idx = 1
    /\ Len(defects) = 3
    /\ defects[1].category = "structural"
    /\ defects[1].keyword_matched = "crack"
    /\ Occurs("foundation crack", Lower(defects[1].description))
    /\ defects[2].category = "moisture"
    /\ defects[3].category = "plumbing"
    /\ defects[2].description = defects[3].description

\* the priority order of the labels, and the position of a label in it
PriorityOrder == <<"critical", "high", "medium", "low">>

PriorityIndex(label) == CHOOSE k \in 1..Len(PriorityOrder) : PriorityOrder[k] = label

\* label has the maximum tally
HasMaxTally(label) == \A other \in SeverityLabels : tallies[other] <= tallies[label]

\* the label returned has the maximum tally and no label before it in the
\* priority order has
FirstOfMaximal ==
    /\ HasMaxTally(severity)
    /\ \A k \in 1..(PriorityIndex(severity) - 1) : ~HasMaxTally(PriorityOrder[k])

\* C18 as stated: determine_severity returns the label with the maximum tally,
\* and of several labels that tie for the maximum the first in the order
\* critical, high, medium, low.
C18_FirstOfTies == pc = "done" => FirstOfMaximal

\* C18 amended: when some tally is positive, determine_severity returns the
\* first label, in the order critical, high, medium, low, whose tally is the
\* maximum; when all four tallies are zero it returns medium.
C18_FirstOfPositiveTies ==
    pc = "done" =>
        IF \A label \in SeverityLabels : tallies[label] = 0
        THEN severity = "medium"
        ELSE FirstOfMaximal

\* a tie between critical and low above the other labels, returned as critical
C18_Witness ==
    /\ pc = "done"
    /\ tallies # <<>>
    /\ tallies["critical"] = tallies["low"]
    /\ tallies["critical"] > tallies["high"]
    /\ tallies["critical"] > tallies["medium"]
    /\ severity = "critical"

\* the tally of label for sentence s: keywords contained, plus the bonus
ExpectedTally(label, s) ==
    Cardinality({k \in 1..Len(SEVERITY_KEYWORDS[label]) : Occurs(SEVERITY_KEYWORDS[label][k], s)})
    + (IF label = "critical" /\ \E k \in 1..Len(critical_indicators) :
                                    Occurs(critical_indicators[k], s)
       THEN 2 ELSE 0)

\* sentence s contains an indicator phrase and no severity keyword
OnlyIndicator(s) ==
    /\ \E k \in 1..Len(critical_indicators) : Occurs(critical_indicators[k], s)
    /\ \A label \in SeverityLabels :
          \A k \in 1..Len(SEVERITY_KEYWORDS[label]) : ~Occurs(SEVERITY_KEYWORDS[label][k], s)

\* C19: in determine_severity the tally of each severity is the number of
\* keywords of its list that the sentence contains, plus, for critical, exactly
\* 2 when the sentence contains at least one critical-indicator phrase
\* (once, however many it contains); a sentence whose only signal is an
\* indicator phrase is labelled critical.
C19_Tallies ==
    pc = "done" =>
        /\ \A label \in SeverityLabels : tallies[label] = ExpectedTally(label, Lower(sentence))
        /\ OnlyIndicator(Lower(sentence)) => severity = "critical"

\* a sentence with two indicator phrases, one of them a critical keyword as
\* well: tally 1 + 2
C19_Witness ==
    /\ pc = "done"
    /\ sentence = "safety hazard urgent risk"
    /\ tallies # <<>>
    /\ tallies["critical"] = 3
    /\ severity = "critical"

\* pattern k is the first pattern of the list that matches s
FirstMatching(k, s) ==
    /\ Matches(location_patterns[k], s)
    /\ \A j \in 1..(k - 1) : ~Matches(location_patterns[j], s)

\* the values a match of the last pattern, a bare building component, gives
BareComponents == {"Roof", "Ceiling", "Floor", "Wall", "Foundation", "Basement"}

\* C20: extract_location_enhanced returns the title-cased first group of the
\* first pattern of the list that matches the lowercased sentence, and
\* "Unspecified" exactly when no pattern matches; so a sentence with a numbered
\* room or a named equipment room gets that room as its location, never a bare
\* wall, roof or floor, wherever in the sentence each of them stands.
C20_FirstPatternWins ==
    pc = "done" =>
        LET s == Lower(sentence)
        IN /\ location = "Unspecified"
                <=> \A k \in 1..Len(location_patterns) : ~Matches(location_patterns[k], s)
           /\ \A k \in 1..Len(location_patterns) :
                 FirstMatching(k, s) => location = Title(Group1(location_patterns[k], s))
           /\ (Occurs("room 12a", s) \/ Occurs("boiler room", s))
                 => location \notin BareComponents /\ Occurs("Room", location)

\* a sentence that names a wall before a numbered room is located in the room
C20_Witness ==
    /\ pc = "done"
    /\ sentence = "Wall Room 12a"
    /\ location = "Room 12A"

\* the two constant closing recommendations
ClosingRecommendations ==
    <<"Document all repairs and maintain regular inspection schedule",
      "Budget for medium/low priority items in maintenance plan">>

\* C22: for every non-empty defect list analyze_defects returns a result whose
\* recommendations end with the two constant closing recommendations.
C22_ClosingRecommendations ==
    (pc = "done" /\ unique_defects # <<>>) =>
        /\ result.status = "returned"
        /\ Len(result.recommendations) >= 2
        /\ SubSeq(result.recommendations, Len(result.recommendations) - 1,
                  Len(result.recommendations)) = ClosingRecommendations

\* a defect of high or critical severity with confidence above 0.7
Qualifies(defect) == defect.severity \in {"high", "critical"} /\ defect.confidence > 70

\* C23: priority_defects is the list of the first 5 (or all, if fewer)
\* defects of the input list with severity high or critical and confidence
\* above 0.7, in the order of the input list.
C23_PriorityFirstFive ==
    pc = "done" =>
        /\ result.status = "returned"
        /\ LET qualifying == SelectSeq(unique_defects, Qualifies)
           IN result.priority_defects =
                SubSeq(qualifying, 1, IF Len(qualifying) < 5 THEN Len(qualifying) ELSE 5)

\* the candidates, by position in the list before deduplication, that come
\* from the sentence with description d
CandidatesOf(d) == {k \in 1..Len(defects) : defects[k].description = d}

\* C27: in the list detect_defects_rule_based returns no two defects have the
\* same description; of the candidates one sentence yields in several
\* categories, a defect that remains is the candidate of the first matching
\* category in table order, so at most one defect per sentence remains.
C27_OnePerSentence ==
    pc \in {"detected", "done"} =>
        /\ \A i, j \in 1..Len(unique_defects) :
              unique_defects[i].description = unique_defects[j].description => i = j
        /\ \A i \in 1..Len(unique_defects) :
              \E k \in CandidatesOf(unique_defects[i].description) :
                  /\ defects[k] = unique_defects[i]
                  /\ \A l \in CandidatesOf(unique_defects[i].description) :
                        /\ k <= l
                        /\ CategoryIndex(defects[k].category) <= CategoryIndex(defects[l].category)

\* a sentence with a moisture and a plumbing candidate, of which the moisture
\* defect was returned
C27_Witness ==
    /\ pc = "detected"
    /\ Len(defects) = 2
    /\ defects[1].description = defects[2].description
    /\ defects[1].category = "moisture"
    /\ defects[2].category = "plumbing"
    /\ unique_defects = <<defects[1]>>

\* the sentence loop followed step by step ends with the list Candidates gives
ScanAgrees == pc = "scanned" => defects = Candidates(text)

\* a line the boilerplate filter drops: it contains a skip pattern or has
\* fewer than 10 characters after trimming
DroppedLine(line) ==
    \/ Len(Strip(line)) < 10
    \/ \E p \in 1..Len(skip_patterns) : Occurs(skip_patterns[p], Lower(line))

\* C21: the boilerplate filter is applied before the text is split into
\* sentences: no sentence that reaches classification contains a skip pattern,
\* and every piece of it (a sentence may run over several lines) comes from a
\* line of the text that the filter keeps, never from a dropped line.
C21_FilterBeforeSegmentation ==
    pc \in {"sentences", "scanned"} =>
        \A k \in 1..Len(scan.classified) :
            /\ \A p \in 1..Len(skip_patterns) :
                  ~Occurs(skip_patterns[p], Lower(scan.classified[k]))
            /\ \A piece \in Range(SplitLines(scan.classified[k])) :
                  \E line \in Range(SplitLines(text)) :
                      ~DroppedLine(line) /\ Occurs(piece, line)

\* a short line with a keyword stands between the start of the text and the
\* sentence classified, which does not include it
C21_Witness ==
    /\ pc = "scanned"
    /\ text = "Leak at\nWater leak under the kitchen sink today. "
    /\ scan.classified = <<"Water leak under the kitchen sink today">>

\* the key of a sentence: its first 50 characters, lowercased
KeyOf(s) == SubSeq(Lower(s), 1, IF Len(s) < 50 THEN Len(s) ELSE 50)

\* the sentence at position j of the loop, trimmed
Trimmed(j) == Strip(scan.sentences[j])

\* the sentence at position j is long enough and no earlier sentence of the
\* text has its key
FirstOfKey(j) ==
    /\ Len(Trimmed(j)) >= 15
    /\ \A earlier \in 1..(j - 1) : KeyOf(Trimmed(earlier)) # KeyOf(Trimmed(j))

\* C24: within one run of detect_defects_rule_based the sentences classified
\* are exactly the sentences of at least 15 characters that are the first of
\* the text with their key (lowercased first 50 characters), and the set of
\* seen keys, the keys of the sentences classified, only grows.
C24_FirstOfKeyOnly ==
    /\ [](pc \in {"sentences", "scanned"} =>
            /\ scan.classified =
                 [k \in 1..Len(SelectSeq([j \in 1..(scan.i - 1) |-> j], FirstOfKey)) |->
                    Trimmed(SelectSeq([j \in 1..(scan.i - 1) |-> j], FirstOfKey)[k])]
            /\ scan.processed_sentences = {KeyOf(s) : s \in Range(scan.classified)})
    /\ [][pc = "sentences" => scan.processed_sentences \subseteq scan'.processed_sentences]_vars

\* of two long sentences that differ in case and after their first 50
\* characters only the first was classified
C24_Witness ==
    /\ pc = "scanned"
    /\ Len(scan.sentences) >= 2
    /\ Trimmed(1) # Trimmed(2)
    /\ Len(Trimmed(2)) > 50
    /\ KeyOf(Trimmed(1)) = KeyOf(Trimmed(2))
    /\ scan.classified = <<Trimmed(1)>>
    /\ Cardinality(scan.processed_sentences) = 1

\* C26: every candidate the classifier produces has confidence at least 0.48,
\* so the floor 0.4 discards none: every category with a keyword in a
\* classified sentence has a candidate for that sentence in the list before
\* deduplication.
C26_FloorNeverDiscards ==
    pc \in {"sentences", "scanned"} =>
        /\ \A k \in 1..Len(defects) : defects[k].confidence >= 48
        /\ \A k \in 1..Len(scan.classified) :
              \A category \in Range(CATEGORY_ORDER) :
                  (\E w \in Range(DEFECT_CATEGORIES[category]) :
                        Occurs(w, Lower(scan.classified[k])))
                  => \E d \in 1..Len(defects) :
                        /\ defects[d].description = scan.classified[k]
                        /\ defects[d].category = category

\* a classified sentence with one keyword and no other factor: the lowest
\* confidence, 0.48
C26_Witness ==
    /\ pc = "scanned"
    /\ \E k \in 1..Len(defects) :
          /\ defects[k].confidence = 48
          /\ defects[k].description \in Range(scan.classified)

\* the threads that have finished the request they were given
Done(h) == handlers[h].pc = "done"

\* C29: once upload_file or api_analyze has finished a request whose file it
\* saved to the upload folder, no file of that name is left in the folder,
\* whatever the outcome of the request
C29_SavedFileRemoved ==
    \A h \in HANDLERS :
        Done(h) /\ handlers[h].saved => handlers[h].name \notin DOMAIN server.files

\* the request ended without a result: no text, or an exception in
\* extraction or analysis
Failed(h) ==
    /\ handlers[h].route = "upload"
    /\ \/ handlers[h].outcome \in {"no_text", "error"}
       \/ handlers[h].analysis.status \notin {"returned", "none"}

\* a thread is in upload_file behind an analysis that returned
Succeeded(h) ==
    /\ handlers[h].route = "upload"
    /\ handlers[h].analysis.status = "returned"
    /\ handlers[h].pc \in {"write", "distributions", "store"}

\* C30: an upload that yields no text, or whose extraction or analysis raises,
\* ends with the analytics counters and the tables reports and defects as
\* they were when it arrived; the counters and the tables change only in a
\* step of an upload whose analysis returned
C30_FailureChangesNothing ==
    /\ [](\A h \in HANDLERS : Done(h) /\ Failed(h) => Snapshot(server) = handlers[h].before)
    /\ [][Snapshot(server)' # Snapshot(server) => \E h \in HANDLERS : Succeeded(h)]_vars

\* an upload whose analysis raised TypeError has ended, after an earlier
\* upload was counted
C30_Witness ==
    /\ Done(1) /\ Failed(1)
    /\ handlers[1].analysis.status = "TypeError"
    /\ server.analytics.total_reports > 0
    /\ server.reports # <<>>

\* the sum of the values of a distribution
Total(dist) == SumOver(dist, DOMAIN dist)

\* C28: between sequentially handled requests, starting from the initial
\* counters, total_defects is the sum of severity_distribution and the sum of
\* defect_categories, and reports_today is at most total_reports
C28_CountersAgree ==
    handlers[1].pc \in {"idle", "done"} =>
        /\ server.analytics.total_defects = Total(server.analytics.severity_distribution)
        /\ server.analytics.total_defects = Total(server.analytics.defect_categories)
        /\ server.analytics.reports_today <= server.analytics.total_reports

\* two uploads have been counted and a third request has been handled
C28_Witness ==
    /\ Done(1)
    /\ handlers[1].served = 3
    /\ server.analytics.total_reports = 2
    /\ server.analytics.reports_today = 2

\* the uploads that reached the update of the counters
Counted == {h \in HANDLERS : handlers[h].outcome = "rendered"}

\* C25: when all concurrently handled uploads have ended, total_reports is
\* the number of uploads that reached the update of the counters and
\* total_defects the sum of their defect counts
C25_NoLostUpdate ==
    (\A h \in HANDLERS : Done(h)) =>
        /\ server.analytics.total_reports = Cardinality(Counted)
        /\ server.analytics.total_defects =
               Total([h \in Counted |-> handlers[h].analysis.total_defects])
====
